---- MODULE Spec2Model ----
(***************************************************************************)
(* Boids flocking simulation (src/main.cpp): the angle helpers, the Boid   *)
(* and System structures and the four passes of System::update.            *)
(*                                                                         *)
(* Numbers.  The program computes in `float'.  The model computes on       *)
(* fixed-point grids, exactly and without rounding of sums:                *)
(*   angles      whole degrees                                             *)
(*   positions   1/PosScale of a distance unit                             *)
(*   delta_time  1/DtDen of a second                                       *)
(*   sin, cos    1/TrigScale                                               *)
(* A quotient or a product that leaves the grid is truncated toward zero.  *)
(* NaN is a value of its own that every operation propagates.              *)
(***************************************************************************)
EXTENDS Integers, Sequences

VARIABLES
    boids,       \* System::boids, the std::list<Boid>, in list order
    next_id,     \* the function-local static _id of Boid::Boid
    pc,          \* position inside System::update: the pass that ran last
    delta_time,  \* the argument of the update in progress (or of the last)
    ticks,       \* number of completed update calls
    start,       \* boids as they were when the update in progress began
    prev,        \* boids as they were before the pass that ran last
    int_abs,     \* build choice: unqualified abs(float) resolves to ::abs(int)
    call         \* one call of Helpers::steering_nudge and what it computed

vars == <<boids, next_id, pc, delta_time, ticks, start, prev, int_abs, call>>

----------------------------------------------------------------------------
(* Bounds of the model *)

MaxBoids == 3      \* flock sizes 1..MaxBoids
MaxDt == 2         \* delta_time in 0..MaxDt (units of 1/DtDen s)
MaxTicks == 4      \* update calls per behaviour
AngleStep == 15    \* stride of the angles fed to steering_nudge alone
MaxAngleK == 26    \* those angles are k * AngleStep, |k| <= MaxAngleK
MaxForceK == 13    \* step budgets are k * AngleStep, 0 <= k <= MaxForceK

(* Resolutions of the fixed-point grids *)

DtDen == 2
PosScale == 100
TrigScale == 10000

(* Constants of the program *)

spacing_x == 20
initial_y == 200
separation_force == 90
cohesion_force == 60
alignment_force == 50
movement_speed == 10
separationRing == 20
full_turn == 360
half_turn == 180

NaN == 0 - 2000000000

isnan(v) == v = NaN

----------------------------------------------------------------------------
(* Arithmetic of the grid *)

Abs(v) == IF v < 0 THEN -v ELSE v

\* a / b, b > 0, truncated toward zero
TruncDiv(a, b) == IF a >= 0 THEN a \div b ELSE -((-a) \div b)

\* fmod(x, m): the remainder has the sign of x
fmod(x, m) == IF x >= 0 THEN x % m ELSE -((-x) % m)

RECURSIVE sqrt_search(_, _, _)
sqrt_search(s, lo, hi) ==
    IF lo = hi THEN lo
    ELSE LET mid == (lo + hi + 1) \div 2
         IN  IF mid * mid <= s THEN sqrt_search(s, mid, hi)
                               ELSE sqrt_search(s, lo, mid - 1)

\* sqrtf(ax^2 + ay^2) on the grid, ax, ay >= 0: the largest r with
\* r * r <= ax^2 + ay^2, which lies between the larger of the two and their sum
sqrtf_sum_of_squares(ax, ay) ==
    sqrt_search(ax * ax + ay * ay, IF ax > ay THEN ax ELSE ay, ax + ay)

\* sin of 0..90 degrees, in 1/TrigScale
SinTable ==
    << 0, 175, 349, 523, 698, 872, 1045, 1219, 1392, 1564, 1736, 1908, 2079,
       2250, 2419, 2588, 2756, 2924, 3090, 3256, 3420, 3584, 3746, 3907, 4067, 4226,
       4384, 4540, 4695, 4848, 5000, 5150, 5299, 5446, 5592, 5736, 5878, 6018, 6157,
       6293, 6428, 6561, 6691, 6820, 6947, 7071, 7193, 7314, 7431, 7547, 7660, 7771,
       7880, 7986, 8090, 8192, 8290, 8387, 8480, 8572, 8660, 8746, 8829, 8910, 8988,
       9063, 9135, 9205, 9272, 9336, 9397, 9455, 9511, 9563, 9613, 9659, 9703, 9744,
       9781, 9816, 9848, 9877, 9903, 9925, 9945, 9962, 9976, 9986, 9994, 9998, 10000 >>

\* std::sin(Helpers::degrees_to_radians(deg)), in 1/TrigScale
sin_deg(deg) ==
    IF isnan(deg) THEN NaN
    ELSE LET m == deg % full_turn
         IN  IF m <= 90 THEN SinTable[m + 1]
             ELSE IF m <= 180 THEN SinTable[180 - m + 1]
             ELSE IF m <= 270 THEN -SinTable[m - 180 + 1]
             ELSE -SinTable[360 - m + 1]

\* std::cos(Helpers::degrees_to_radians(deg)), in 1/TrigScale
cos_deg(deg) == IF isnan(deg) THEN NaN ELSE sin_deg(deg + 90)

\* length of the projection of (ax, ay) on the direction a degrees, 0 <= a <= 90:
\* ax * cos a + ay * sin a, with cos a = sin (90 - a)
projection(ay, ax, a) == ax * SinTable[91 - a] + ay * SinTable[a + 1]

RECURSIVE quadrant_search(_, _, _, _)
quadrant_search(ay, ax, lo, hi) ==
    IF lo = hi THEN lo
    ELSE LET mid == (lo + hi) \div 2
         IN  IF projection(ay, ax, mid + 1) > projection(ay, ax, mid)
             THEN quadrant_search(ay, ax, mid + 1, hi)
             ELSE quadrant_search(ay, ax, lo, mid)

\* atan2(y, x) in whole degrees: the direction nearest to (x, y), in -180..180;
\* atan2(0, 0) is 0
atan2_deg(y, x) ==
    IF x = 0 /\ y = 0 THEN 0
    ELSE LET q == quadrant_search(Abs(y), Abs(x), 0, 90)
         IN  IF x >= 0 /\ y >= 0 THEN q
             ELSE IF x < 0 /\ y >= 0 THEN 180 - q
             ELSE IF x < 0 THEN q - 180
             ELSE -q

----------------------------------------------------------------------------
(* namespace Helpers *)

\* abs(b.x - a.x) as the build resolves it: fabs, or the int overload, which
\* first truncates its argument to a whole number
abs_call(v) == IF int_abs THEN (Abs(v) \div PosScale) * PosScale ELSE Abs(v)

distance(a, b) ==
    IF isnan(a.x) \/ isnan(a.y) \/ isnan(b.x) \/ isnan(b.y) THEN NaN
    ELSE LET ax == abs_call(b.x - a.x)
             ay == abs_call(b.y - a.y)
         IN  sqrtf_sum_of_squares(ax, ay)

angle_to(a, b) ==
    IF isnan(a.x) \/ isnan(a.y) \/ isnan(b.x) \/ isnan(b.y) THEN NaN
    ELSE atan2_deg(b.y - a.y, b.x - a.x)

\* normalize_angle without its `if (theta < 0)' branch
normalize_angle_unwrapped(theta) ==
    IF isnan(theta) THEN NaN ELSE fmod(theta, full_turn)

normalize_angle(theta) ==
    IF isnan(theta) THEN NaN
    ELSE LET t == fmod(theta, full_turn)
         IN  IF t < 0 THEN t + full_turn ELSE t

opposite_angle(theta) == normalize_angle(normalize_angle(theta) + half_turn)

\* the difference without the wrap across +-360
nudge_difference_unwrapped(from, to) == normalize_angle(to) - normalize_angle(from)

\* the local `difference' of steering_nudge after the wrap across +-360
nudge_difference(from, to) ==
    LET d == normalize_angle(to) - normalize_angle(from)
    IN  IF d > half_turn THEN d - full_turn
        ELSE IF d < -half_turn THEN d + full_turn
        ELSE d

\* steering_nudge without the clamp: the whole difference is applied
steering_nudge_unclamped(from, to, steering_force) ==
    IF isnan(from) \/ isnan(to) \/ isnan(steering_force) THEN NaN
    ELSE normalize_angle(normalize_angle(from) + nudge_difference(from, to))

\* steering_nudge that always takes the full step
steering_nudge_full_step(from, to, steering_force) ==
    IF isnan(from) \/ isnan(to) \/ isnan(steering_force) THEN NaN
    ELSE normalize_angle(normalize_angle(from)
            + (IF nudge_difference(from, to) > 0 THEN steering_force
                                                 ELSE -steering_force))

steering_nudge(from, to, steering_force) ==
    IF isnan(from) \/ isnan(to) \/ isnan(steering_force) THEN NaN
    ELSE LET n_from == normalize_angle(from)
             difference == nudge_difference(from, to)
             adjustment == IF Abs(difference) < steering_force
                           THEN Abs(difference) ELSE steering_force
             newAngle == n_from + (IF difference > 0 THEN adjustment ELSE -adjustment)
         IN  normalize_angle(newAngle)

----------------------------------------------------------------------------
(* struct Boid, struct System *)

\* Boid::Boid with a counter that is not static: every id is 0
Boid_same_id(pos, rot, id) == [pos |-> pos, rot |-> rot, id |-> 0]

Boid(pos, rot, id) == [pos |-> pos, rot |-> rot, id |-> id]

\* System::System(n_boids), the static id counter standing at first_id
System(n_boids, first_id) ==
    [i \in 1..n_boids |->
        Boid([x |-> spacing_x * (i - 1) * PosScale, y |-> initial_y * PosScale],
             0, first_id + i - 1)]

RECURSIVE accumulate(_)
accumulate(s) == IF s = <<>> THEN 0 ELSE Head(s) + accumulate(Tail(s))

\* std::accumulate(v) / v.size(); 0.0f / 0 is NaN
average(s) ==
    IF Len(s) = 0 \/ \E k \in 1..Len(s) : isnan(s[k]) THEN NaN
    ELSE TruncDiv(accumulate(s), Len(s))

\* force * delta_time
step_budget(force, dt) == (force * dt) \div DtDen

\* the inner loop with the ring's edge counted as inside (<= for <)
RECURSIVE boid_angles_inclusive(_, _, _)
boid_angles_inclusive(b, i, j) ==
    IF j > Len(b) THEN <<>>
    ELSE IF b[i].id = b[j].id THEN boid_angles_inclusive(b, i, j + 1)
    ELSE LET d == distance(b[i].pos, b[j].pos)
         IN  IF ~isnan(d) /\ d <= separationRing * PosScale
             THEN <<angle_to(b[i].pos, b[j].pos)>> \o boid_angles_inclusive(b, i, j + 1)
             ELSE boid_angles_inclusive(b, i, j + 1)

\* the inner loop of the separation pass: the bearings from b[i] to the boids
\* y = b[j], j..Len(b), that are not b[i] and lie inside the ring
RECURSIVE boid_angles(_, _, _)
boid_angles(b, i, j) ==
    IF j > Len(b) THEN <<>>
    ELSE IF b[i].id = b[j].id THEN boid_angles(b, i, j + 1)
    ELSE LET d == distance(b[i].pos, b[j].pos)
         IN  IF ~isnan(d) /\ d < separationRing * PosScale
             THEN <<angle_to(b[i].pos, b[j].pos)>> \o boid_angles(b, i, j + 1)
             ELSE boid_angles(b, i, j + 1)

\* the iteration without `if (boid_angles.empty()) continue;'
separate_one_unguarded(b, i, dt) ==
    [b EXCEPT ![i].rot =
        steering_nudge(b[i].rot, opposite_angle(average(boid_angles(b, i, 1))),
                       step_budget(separation_force, dt))]

\* one iteration of the separation loop, on the list as the earlier iterations left it
separate_one(b, i, dt) ==
    LET angles == boid_angles(b, i, 1)
    IN  IF angles = <<>> THEN b
        ELSE LET average_angle == average(angles)
                 target_angle == opposite_angle(average_angle)
             IN  [b EXCEPT ![i].rot =
                    steering_nudge(b[i].rot, target_angle,
                                   step_budget(separation_force, dt))]

RECURSIVE separation_loop(_, _, _)
separation_loop(b, i, dt) ==
    IF i > Len(b) THEN b ELSE separation_loop(separate_one(b, i, dt), i + 1, dt)

\* the loop started at the second boid
separation_pass_skip_first(b, dt) == separation_loop(b, 2, dt)

separation_pass(b, dt) == separation_loop(b, 1, dt)

center(b) ==
    [x |-> average([i \in 1..Len(b) |-> b[i].pos.x]),
     y |-> average([i \in 1..Len(b) |-> b[i].pos.y])]

RECURSIVE cohesion_loop(_, _, _, _)
cohesion_loop(b, i, c, dt) ==
    IF i > Len(b) THEN b
    ELSE cohesion_loop(
            [b EXCEPT ![i].rot =
                steering_nudge(b[i].rot, angle_to(b[i].pos, c),
                               step_budget(cohesion_force, dt))],
            i + 1, c, dt)

cohesion_pass(b, dt) == cohesion_loop(b, 1, center(b), dt)

average_rotation(b) == average([i \in 1..Len(b) |-> b[i].rot])

RECURSIVE alignment_loop(_, _, _, _)
alignment_loop(b, i, avg, dt) ==
    IF i > Len(b) THEN b
    ELSE alignment_loop(
            [b EXCEPT ![i].rot =
                steering_nudge(b[i].rot, avg, step_budget(alignment_force, dt))],
            i + 1, avg, dt)

\* the mean heading taken anew inside the loop, from headings already nudged
RECURSIVE alignment_loop_running(_, _, _)
alignment_loop_running(b, i, dt) ==
    IF i > Len(b) THEN b
    ELSE alignment_loop_running(
            [b EXCEPT ![i].rot =
                steering_nudge(b[i].rot, average_rotation(b),
                               step_budget(alignment_force, dt))],
            i + 1, dt)

alignment_pass_running(b, dt) == alignment_loop_running(b, 1, dt)

alignment_pass(b, dt) == alignment_loop(b, 1, average_rotation(b), dt)

\* trig * movement_speed * delta_time, in position units
displacement(trig, dt) ==
    IF isnan(trig) THEN NaN
    ELSE TruncDiv(trig * movement_speed * dt * PosScale, TrigScale * DtDen)

add(p, d) == IF isnan(p) \/ isnan(d) THEN NaN ELSE p + d

move_one(boid, dt) ==
    [boid EXCEPT !.pos = [x |-> add(boid.pos.x, displacement(cos_deg(boid.rot), dt)),
                          y |-> add(boid.pos.y, displacement(sin_deg(boid.rot), dt))]]

movement_pass(b, dt) == [i \in 1..Len(b) |-> move_one(b[i], dt)]

\* System::update as a whole
update(b, dt) ==
    movement_pass(alignment_pass(cohesion_pass(separation_pass(b, dt), dt), dt), dt)

----------------------------------------------------------------------------
(* The program: a System is constructed, then update is called repeatedly *)

DeltaTimes == 0..MaxDt

NoCall == [from |-> 0, to |-> 0, force |-> 0, done |-> FALSE,
           difference |-> 0, result |-> 0]

Init ==
    /\ \E n \in 1..MaxBoids : boids = System(n, 0) /\ next_id = n
    /\ pc = "idle"
    /\ delta_time = 0
    /\ ticks = 0
    /\ start = boids
    /\ prev = boids
    /\ int_abs \in BOOLEAN
    /\ call = NoCall

Separation ==
    /\ pc = "idle"
    /\ ticks < MaxTicks
    /\ \E dt \in DeltaTimes :
          /\ delta_time' = dt
          /\ boids' = separation_pass(boids, dt)
    /\ start' = boids
    /\ prev' = boids
    /\ pc' = "separation"
    /\ UNCHANGED <<next_id, ticks, int_abs, call>>

Cohesion ==
    /\ pc = "separation"
    /\ boids' = cohesion_pass(boids, delta_time)
    /\ pc' = "cohesion"
    /\ prev' = boids
    /\ UNCHANGED <<next_id, delta_time, ticks, start, int_abs, call>>

Alignment ==
    /\ pc = "cohesion"
    /\ boids' = alignment_pass(boids, delta_time)
    /\ pc' = "alignment"
    /\ prev' = boids
    /\ UNCHANGED <<next_id, delta_time, ticks, start, int_abs, call>>

Movement ==
    /\ pc = "alignment"
    /\ boids' = movement_pass(boids, delta_time)
    /\ pc' = "idle"
    /\ ticks' = ticks + 1
    /\ prev' = boids
    /\ UNCHANGED <<next_id, delta_time, start, int_abs, call>>

Next == Separation \/ Cohesion \/ Alignment \/ Movement

Spec == Init /\ [][Next]_vars

----------------------------------------------------------------------------
(* update on flocks a caller builds itself: Boid(pos, rot) objects placed in *)
(* System::boids (both are public), then one call of update                  *)

\* where such a caller puts a boid: (0, 200) heading 0, (10, 205) heading 90,
\* (19.5, 204.5) heading 350.  The first and the third are 20.01 apart, and
\* 19.4 apart when abs truncates.
Placements ==
    { [pos |-> [x |-> 0, y |-> 200 * PosScale], rot |-> 0],
      [pos |-> [x |-> 10 * PosScale, y |-> 205 * PosScale], rot |-> 90],
      [pos |-> [x |-> (39 * PosScale) \div 2, y |-> (409 * PosScale) \div 2],
       rot |-> 350] }

FlockInit ==
    /\ \E n \in 1..MaxBoids : \E f \in [1..n -> Placements] :
          /\ boids = [i \in 1..n |-> Boid(f[i].pos, f[i].rot, i - 1)]
          /\ next_id = n
    /\ pc = "idle"
    /\ delta_time = 0
    /\ ticks = 0
    /\ start = boids
    /\ prev = boids
    /\ int_abs \in BOOLEAN
    /\ call = NoCall

FlockNext == (pc = "idle" => ticks = 0) /\ Next

SpecFlock == FlockInit /\ [][FlockNext]_vars

----------------------------------------------------------------------------
(* Helpers::steering_nudge alone *)

Angles == { k * AngleStep : k \in (-MaxAngleK)..MaxAngleK }

Forces == { k * AngleStep : k \in 0..MaxForceK }

NudgeInit ==
    /\ boids = <<>>
    /\ next_id = 0
    /\ pc = "idle"
    /\ delta_time = 0
    /\ ticks = 0
    /\ start = boids
    /\ prev = boids
    /\ int_abs = FALSE
    /\ \E from \in Angles, to \in Angles, force \in Forces :
          call = [NoCall EXCEPT !.from = from, !.to = to, !.force = force]

Nudge ==
    /\ ~call.done
    /\ call' = [call EXCEPT
                   !.done = TRUE,
                   !.difference = nudge_difference(call.from, call.to),
                   !.result = steering_nudge(call.from, call.to, call.force)]
    /\ UNCHANGED <<boids, next_id, pc, delta_time, ticks, start, prev, int_abs>>

NudgeNext == Nudge

SpecNudge == NudgeInit /\ [][NudgeNext]_vars

----------------------------------------------------------------------------
(* The claims.  Angles are compared by what the specification says of them: *)
(* Normalized is the floored modulo, AngularDistance the shorter arc.       *)

Normalized(theta) == theta % 360

AngularDistance(a, b) ==
    LET d == (a - b) % 360 IN IF d > 180 THEN 360 - d ELSE d

Defined(b) ==
    \A i \in 1..Len(b) : ~isnan(b[i].rot) /\ ~isnan(b[i].pos.x) /\ ~isnan(b[i].pos.y)

AllShare(b) ==
    \A i, j \in 1..Len(b) : b[i].pos = b[j].pos /\ b[i].rot = b[j].rot

Orders(n) == { p \in [1..n -> 1..n] : \A i, j \in 1..n : p[i] = p[j] => i = j }

Permute(b, p) == [i \in 1..Len(b) |-> b[p[i]]]

C4_Scenario ==
    /\ pc = "separation"
    /\ start = System(2, 0)
    /\ delta_time = DtDen

\* C4, as claimed: in that state the separation pass has turned the first
\* heading toward 180 degrees (by at most 90) and left the second at its
\* target 0.
C4_SeparationTurnsHeadings ==
    C4_Scenario =>
        /\ boids[1].rot # start[1].rot
        /\ AngularDistance(boids[1].rot, start[1].rot) <= 90
        /\ AngularDistance(boids[1].rot, 180) < AngularDistance(start[1].rot, 180)
        /\ boids[2].rot = 0

\* C4, amended: the two agents are exactly 20 apart, which is not inside the
\* ring (the test is distance < 20), so the separation pass changes neither
\* heading: both are still 0 after it.
C4_SeparationSkipsAtRing ==
    C4_Scenario =>
        /\ distance(start[1].pos, start[2].pos) = separationRing * PosScale
        /\ boids[1].rot = 0
        /\ boids[2].rot = 0
        /\ boids = start

C4_Witness == C4_Scenario

\* C7: a flock of one agent, through any number of updates: no pass divides by
\* zero or yields NaN; the separation pass finds no neighbour and is skipped;
\* centroid and mean heading, divided by 1, are the agent's own; the heading
\* stays in [0, 360) (it stays 0); movement advances the position by
\* movement_speed * delta_time along the heading.
C7_SingleState ==
    Len(boids) = 1 =>
        /\ Defined(boids)
        /\ 0 <= boids[1].rot /\ boids[1].rot < 360
        /\ boids[1].rot = 0
        /\ boid_angles(boids, 1, 1) = <<>>
        /\ center(boids) = boids[1].pos
        /\ average_rotation(boids) = boids[1].rot

C7_SingleStep ==
    Len(boids) = 1 =>
        /\ pc' = "separation" => boids' = boids
        /\ pc' = "idle" =>
              /\ boids'[1].pos.x =
                    boids[1].pos.x + (movement_speed * delta_time * PosScale) \div DtDen
              /\ boids'[1].pos.y = boids[1].pos.y

\* C7: a one-agent flock is in a C7_SingleState state always and every step
\* of its updates is a C7_SingleStep.
C7_SingleAgentSafe == []C7_SingleState /\ [][C7_SingleStep]_vars

C7_Witness ==
    /\ Len(boids) = 1
    /\ pc = "idle"
    /\ ticks >= 3
    /\ delta_time > 0
    /\ boids[1].pos.x >= 2 * movement_speed * PosScale

\* C10: the ids of a flock are pairwise distinct and increase in creation
\* order; an update changes neither the number of agents, nor their order,
\* nor their ids; the separation, cohesion and alignment passes change no
\* position and the movement pass changes no heading.
C10_Ids ==
    /\ \A i, j \in 1..Len(boids) : i < j => boids[i].id < boids[j].id
    /\ \A i \in 1..Len(boids) : boids[i].id < next_id

C10_Frame ==
    /\ Len(boids') = Len(boids)
    /\ next_id' = next_id
    /\ \A i \in 1..Len(boids) : boids'[i].id = boids[i].id
    /\ pc' \in {"separation", "cohesion", "alignment"} =>
          \A i \in 1..Len(boids) : boids'[i].pos = boids[i].pos
    /\ pc' = "idle" =>
          \A i \in 1..Len(boids) : boids'[i].rot = boids[i].rot

\* C10: the ids are as C10_Ids says in every state and every step of an
\* update keeps the frame C10_Frame.
C10_OnlyPosAndRot == []C10_Ids /\ [][C10_Frame]_vars

C10_Witness ==
    /\ Len(boids) >= 2
    /\ pc = "idle"
    /\ ticks >= 1
    /\ \A i \in 1..Len(boids) :
          boids[i].rot # 0 /\ boids[i].pos # System(Len(boids), 0)[i].pos

----------------------------------------------------------------------------
(* Claims about one update of a flock a caller built (SpecFlock) *)

\* C5: when the N >= 2 agents of a flock share one position and one heading
\* as an update begins, they share one position and one heading after each of
\* its passes and at its end, and each has moved by the same displacement.
C5_SymmetryPreserved ==
    (Len(start) >= 2 /\ AllShare(start)) =>
        /\ AllShare(boids)
        /\ \A i, j \in 1..Len(boids) :
              /\ boids[i].pos.x - start[i].pos.x = boids[j].pos.x - start[j].pos.x
              /\ boids[i].pos.y - start[i].pos.y = boids[j].pos.y - start[j].pos.y

C5_Witness ==
    /\ Len(start) >= 3
    /\ AllShare(start)
    /\ pc = "idle"
    /\ ticks = 1
    /\ boids[1].pos # start[1].pos
    /\ boids[1].rot # start[1].rot

\* C6, as claimed: when the N >= 2 agents of a flock share one position and
\* one heading as an update begins, its cohesion pass changes no heading.
C6_CohesionStep ==
    (pc = "separation" /\ pc' = "cohesion" /\ Len(start) >= 2 /\ AllShare(start)) =>
        \A i \in 1..Len(boids) : boids'[i].rot = boids[i].rot

\* C6, as claimed: every cohesion step of such an update is a C6_CohesionStep.
C6_CohesionIsNoOp == [][C6_CohesionStep]_vars

\* C8: the list taken in any other order, each pass on it (and so the whole
\* update) gives every agent the heading and the position it is given in the
\* order the list has.
C8_OrderIndependent ==
    \A p \in Orders(Len(start)) :
        /\ pc = "separation" =>
              separation_pass(Permute(prev, p), delta_time) = Permute(boids, p)
        /\ pc = "cohesion" =>
              cohesion_pass(Permute(prev, p), delta_time) = Permute(boids, p)
        /\ pc = "alignment" =>
              alignment_pass(Permute(prev, p), delta_time) = Permute(boids, p)
        /\ (pc = "idle" /\ ticks > 0) =>
              /\ movement_pass(Permute(prev, p), delta_time) = Permute(boids, p)
              /\ update(Permute(start, p), delta_time) = Permute(boids, p)

C8_Witness ==
    /\ Len(start) = 3
    /\ pc = "idle"
    /\ ticks = 1
    /\ \A i, j \in 1..3 : i # j => start[i].rot # start[j].rot
    /\ \A i \in 1..3 : boids[i].rot # start[i].rot /\ boids[i].pos # start[i].pos
    /\ \E i \in 1..3 : Len(boid_angles(start, i, 1)) = 2

----------------------------------------------------------------------------
(* Claims about steering_nudge alone (SpecNudge) *)

\* C2: for max_step >= 0 the result is at angular distance at most max_step
\* from normalize(from), is no farther from `to' than `from' was, and lies on
\* the shorter arc from `from' to `to'.
C2_BoundedTowardTarget ==
    call.done =>
        /\ AngularDistance(call.result, Normalized(call.from)) <= call.force
        /\ AngularDistance(call.result, call.to) <= AngularDistance(call.from, call.to)
        /\ AngularDistance(call.from, call.result) + AngularDistance(call.result, call.to)
              = AngularDistance(call.from, call.to)

C2_Witness ==
    /\ call.done
    /\ call.from < 0
    /\ call.to > 360
    /\ 0 < call.force
    /\ call.force < AngularDistance(call.from, call.to)
    /\ AngularDistance(call.result, Normalized(call.from)) = call.force
    /\ call.result < Normalized(call.from)

\* C3: when max_step is at least the angular distance between `from' and `to'
\* (0 included), the result is normalize(to).
C3_ReachesTarget ==
    (call.done /\ call.force >= AngularDistance(call.from, call.to)) =>
        call.result = Normalized(call.to)

C3_Witness ==
    /\ call.done
    /\ call.to < 0
    /\ call.from > 360
    /\ call.force = AngularDistance(call.from, call.to)
    /\ call.force > 90
    /\ call.result = Normalized(call.to)

\* C9, as claimed: the signed difference steering_nudge computes lies in
\* (-180, 180].
C9_HalfOpenRange ==
    call.done => (-180 < call.difference /\ call.difference <= 180)

\* C9, amended: the signed difference lies in [-180, 180] and is congruent to
\* normalize(to) - normalize(from) modulo 360; it is -180 exactly when
\* normalize(to) = normalize(from) - 180 and +180 exactly when
\* normalize(to) = normalize(from) + 180.
C9_ClosedRange ==
    call.done =>
        /\ -180 <= call.difference /\ call.difference <= 180
        /\ (call.difference - (Normalized(call.to) - Normalized(call.from))) % 360 = 0
        /\ call.difference = -180 <=> Normalized(call.to) = Normalized(call.from) - 180
        /\ call.difference = 180 <=> Normalized(call.to) = Normalized(call.from) + 180

C9_Witness ==
    /\ call.done
    /\ call.difference = -180
    /\ Normalized(call.from) = 180
    /\ Normalized(call.to) = 0

====
